---- MODULE Spec2Model ----
(***************************************************************************)
(* Model of src/amms/amm.rs: the Solayer endoAVS adapter                   *)
(* (SolayerEndoAVSAmm) behind the jupiter_amm_interface::Amm trait, and    *)
(* the static mint -> vault registry AVS_MINT_TO_AVS_ADDRESS.              *)
(*                                                                         *)
(* A call that returns Result::Ok has status "Ok", one that returns        *)
(* Result::Err has status "Err", and one that panics (slice index out of   *)
(* range, Option::unwrap on None) has status "Panic".                      *)
(***************************************************************************)
EXTENDS Integers, Sequences, FiniteSets, TLC

(***************************************************************************)
(* Bounds of the model                                                     *)
(***************************************************************************)
\* largest amount a quote request carries (u64 in the code, never computed on)
MaxAmount == 2

(***************************************************************************)
(* Pubkeys (src/amms/amm.rs:13-30), written as their base58 text           *)
(***************************************************************************)
SOLAYER_SOL == "sSo14endRuUbvQaJS3dq36Q829a3A6BEfoeeRGJywEh"
BYBIT_AVS_MINT == "bybitztPBdV3KRMfwr8ysBf7xx15JvwvuNWa7Wj9Wgz"
OKX_AVS_MINT == "okxwLVtTcWuhyTdps5LQHCjRJ2nEbvSBXhEJBsWBUiV"
KAMINO_FINANCE_AVS_MINT == "kmnoqco9kFsSBSNZRtnxSxABQPKL65Y6HTpogBbAdpi"
BITGET_AVS_MINT == "BGSo18NXTWGtyNa5DBBP1ZCfUFRPWj6bECrPKakn8qN"
SONIC_AVS_MINT == "sonickAJFiVLcYXx25X9vpF293udaWqDMUCiGtk7dg2"
HASH_KEY_CLOUD_AVS_MINT == "hash4eTHsuZakZiHg5vfQwFtBaEhhC9SXRYsZm4Br7k"
BONK_AVS_MINT == "bonkABCQVasnhyVAvB2zYFSCRMGB6xKhpthKuCnsU5K"
ALT_LAYER_AVS_MINT == "6C41vb9AqJzmbWZ4zi6eCGJz3vSKrwjxfu8N77SRRtyr"

BYBIT_AVS_ADDRESS == "Hny1SeUgUHZEixUkPtMgcXq6xoeD8JSGMnUwrBqML5dY"
OKX_AVS_ADDRESS == "DCoTHVgbQDiwYE7n822jXHxMnjJTuESwF1iubDtnzAMX"
KAMINO_FINANCE_AVS_ADDRESS == "GnudctaPLkvjm1FQpZ2pBRLsWxbt9VWpoyq2gFCt3vfa"
BITGET_AVS_ADDRESS == "9PKigVr684uDNBfQKvGBrwGQ5KYjHQspTPcmLDv8aqS2"
SONIC_AVS_ADDRESS == "HBkJwH6rjUUBK1wNhBuYgo9Wnk1iCx2phduyxWCQj6uk"
HASH_KEY_CLOUD_AVS_ADDRESS == "745mkVyUsYe6FrSujnKQGiaLVAS6ac19dmU5XfNRzbwE"
BONK_AVS_ADDRESS == "E2VVTVBeaV8U197Mnvpa9skjaxPDDiHeTpGK1CkvW6fL"
ALT_LAYER_AVS_ADDRESS == "EBYsvMRRYnjbeGQ91mruwTBx8C4vtC8nUFhCGX4xmgHX"

\* spl_token::id(), spl_associated_token_account::id(), solana_system_program::id()
spl_token_id == "TokenkegQfeZyiNwAJbNbGKPFXCWuBvf9Ss623VQ5DA"
spl_associated_token_account_id == "ATokenGPvbdGVxr1b2hvZbsiqW5xWH25efTNsLJA8knL"
solana_system_program_id == "11111111111111111111111111111111"

\* the all-zero key, Pubkey::default()
DefaultPubkey == "Pubkey::default"

(***************************************************************************)
(* Keys the callers of the adapter bring: a mint the registry does not     *)
(* know, the user's two token accounts, the transfer authority, the pool   *)
(* account and its owner, the pool's two reserve accounts.                 *)
(***************************************************************************)
UNKNOWN_MINT == "UnknownMint"
USER_ACCOUNT_1 == "UserTokenAccount1"
USER_ACCOUNT_2 == "UserTokenAccount2"
USER_AUTHORITY == "UserTransferAuthority"
POOL_KEY == "PoolAccount"
POOL_OWNER == "PoolOwnerProgram"
POOL_TOKEN_A == "PoolReserveA"
POOL_TOKEN_B == "PoolReserveB"

AvsMints ==
    { BYBIT_AVS_MINT, OKX_AVS_MINT, KAMINO_FINANCE_AVS_MINT, BITGET_AVS_MINT,
      SONIC_AVS_MINT, HASH_KEY_CLOUD_AVS_MINT, BONK_AVS_MINT, ALT_LAYER_AVS_MINT }

\* the mints a request may name
Mints == {SOLAYER_SOL, UNKNOWN_MINT} \cup AvsMints

\* every key of the model, in a fixed order: a key's 32 bytes are modelled
\* by its position in this sequence
AllPubkeys ==
    << SOLAYER_SOL,
       BYBIT_AVS_MINT, OKX_AVS_MINT, KAMINO_FINANCE_AVS_MINT, BITGET_AVS_MINT,
       SONIC_AVS_MINT, HASH_KEY_CLOUD_AVS_MINT, BONK_AVS_MINT, ALT_LAYER_AVS_MINT,
       BYBIT_AVS_ADDRESS, OKX_AVS_ADDRESS, KAMINO_FINANCE_AVS_ADDRESS,
       BITGET_AVS_ADDRESS, SONIC_AVS_ADDRESS, HASH_KEY_CLOUD_AVS_ADDRESS,
       BONK_AVS_ADDRESS, ALT_LAYER_AVS_ADDRESS,
       spl_token_id, spl_associated_token_account_id, solana_system_program_id,
       DefaultPubkey, UNKNOWN_MINT, USER_ACCOUNT_1, USER_ACCOUNT_2, USER_AUTHORITY,
       POOL_KEY, POOL_OWNER, POOL_TOKEN_A, POOL_TOKEN_B >>

Pubkeys == {AllPubkeys[i] : i \in 1..Len(AllPubkeys)}

\* Pubkey::to_bytes: the key's bytes
to_bytes(pubkey) == CHOOSE i \in 1..Len(AllPubkeys) : AllPubkeys[i] = pubkey

\* Pubkey::from([u8; 32]): the key with these bytes
Pubkey_from(bytes) == AllPubkeys[bytes]

(***************************************************************************)
(* HashMap<Pubkey, Pubkey> and Option                                      *)
(***************************************************************************)
HashMap_new == [k \in {} |-> DefaultPubkey]

insert(m, k, v) == [x \in (DOMAIN m) \cup {k} |-> IF x = k THEN v ELSE m[x]]

None == [some |-> FALSE]

Some(v) == [some |-> TRUE, value |-> v]

get(m, k) == IF k \in DOMAIN m THEN Some(m[k]) ELSE None

\* the registry with the Bonk mint inserted with the AltLayer vault
AVS_MINT_TO_AVS_ADDRESS_build_pasted ==
    LET m0 == HashMap_new
        m1 == insert(m0, BYBIT_AVS_MINT, BYBIT_AVS_ADDRESS)
        m2 == insert(m1, OKX_AVS_MINT, OKX_AVS_ADDRESS)
        m3 == insert(m2, KAMINO_FINANCE_AVS_MINT, KAMINO_FINANCE_AVS_ADDRESS)
        m4 == insert(m3, BITGET_AVS_MINT, BITGET_AVS_ADDRESS)
        m5 == insert(m4, SONIC_AVS_MINT, SONIC_AVS_ADDRESS)
        m6 == insert(m5, HASH_KEY_CLOUD_AVS_MINT, HASH_KEY_CLOUD_AVS_ADDRESS)
        m7 == insert(m6, BONK_AVS_MINT, ALT_LAYER_AVS_ADDRESS)
        m8 == insert(m7, ALT_LAYER_AVS_MINT, ALT_LAYER_AVS_ADDRESS)
    IN  m8

\* lazy_static! { AVS_MINT_TO_AVS_ADDRESS }: the block that builds the map
AVS_MINT_TO_AVS_ADDRESS_build ==
    LET m0 == HashMap_new
        m1 == insert(m0, BYBIT_AVS_MINT, BYBIT_AVS_ADDRESS)
        m2 == insert(m1, OKX_AVS_MINT, OKX_AVS_ADDRESS)
        m3 == insert(m2, KAMINO_FINANCE_AVS_MINT, KAMINO_FINANCE_AVS_ADDRESS)
        m4 == insert(m3, BITGET_AVS_MINT, BITGET_AVS_ADDRESS)
        m5 == insert(m4, SONIC_AVS_MINT, SONIC_AVS_ADDRESS)
        m6 == insert(m5, HASH_KEY_CLOUD_AVS_MINT, HASH_KEY_CLOUD_AVS_ADDRESS)
        m7 == insert(m6, BONK_AVS_MINT, BONK_AVS_ADDRESS)
        m8 == insert(m7, ALT_LAYER_AVS_MINT, ALT_LAYER_AVS_ADDRESS)
    IN  m8

\* the lazy static before its first use
Uninitialized == [initialized |-> FALSE, map |-> HashMap_new]

\* Deref of the lazy static: the map, built on the first use and kept since
deref(lazy) ==
    IF lazy.initialized THEN lazy
    ELSE [initialized |-> TRUE, map |-> AVS_MINT_TO_AVS_ADDRESS_build]

(***************************************************************************)
(* Account data and SwapV1::unpack                                         *)
(*                                                                         *)
(* An account's data is modelled by its length in bytes and by the bytes   *)
(* of the fields of the packed record that follows the version byte. The   *)
(* fields are read only when the length is right.                          *)
(***************************************************************************)
\* SwapV1::LEN, the packed size of the pool-state record
SwapV1_LEN == 323

\* the curve-type tags CurveType::try_from accepts
CurveTypes == {0, 1, 2}

\* a tag byte no curve type has
BadCurveByte == 255

Fees_default ==
    [trade_fee_numerator |-> 0, trade_fee_denominator |-> 1]

\* the record bytes of a pool whose mints are a and b
Record(len, init, a, b, fees, curve) ==
    [ len |-> len,
      is_initialized |-> init,
      bump_seed |-> 1,
      token_program_id |-> to_bytes(spl_token_id),
      token_a |-> to_bytes(POOL_TOKEN_A),
      token_b |-> to_bytes(POOL_TOKEN_B),
      pool_mint |-> to_bytes(DefaultPubkey),
      token_a_mint |-> to_bytes(a),
      token_b_mint |-> to_bytes(b),
      pool_fee_account |-> to_bytes(DefaultPubkey),
      fees |-> fees,
      curve_type |-> curve,
      calculator |-> 1 ]

\* the fee schedules and curves of the pools decoded here
PoolKinds ==
    { [fees |-> Fees_default, curve |-> 1],
      [fees |-> [trade_fee_numerator |-> 1, trade_fee_denominator |-> 4], curve |-> 0],
      [fees |-> Fees_default, curve |-> 2] }

\* data of the right length: version byte + packed record
FullData ==
    { Record(SwapV1_LEN + 1, 1, ab[1], ab[2], k.fees, k.curve) :
        ab \in {<<SOLAYER_SOL, BYBIT_AVS_MINT>>, <<BYBIT_AVS_MINT, SOLAYER_SOL>>},
        k \in PoolKinds }
    \cup
    { Record(SwapV1_LEN + 1, init, SOLAYER_SOL, BYBIT_AVS_MINT, Fees_default, curve) :
        init \in {0, 1, 2}, curve \in {1, BadCurveByte} }

\* data of a wrong length: empty, the version byte alone, short, long
WrongLengths == {0, 1, 2, SwapV1_LEN, SwapV1_LEN + 2}

ShortData ==
    { Record(n, 1, SOLAYER_SOL, BYBIT_AVS_MINT, Fees_default, 1) : n \in WrongLengths }

AccountData == FullData \cup ShortData

KeyedAccounts ==
    { [key |-> POOL_KEY, account |-> [data |-> d, owner |-> POOL_OWNER]] :
        d \in AccountData }

Ok(v) == [status |-> "Ok", value |-> v]

Err(e) == [status |-> "Err", error |-> e]

Panic(msg) == [status |-> "Panic", message |-> msg]

\* &data[1..]: panics when the range starts past the end of the slice
slice_from_1(data) ==
    IF 1 > data.len THEN Panic("range start index 1 out of range")
    ELSE Ok([data EXCEPT !.len = @ - 1])

\* SwapCurve::unpack_from_slice: the curve-type tag and the calculator
SwapCurve_unpack(input) ==
    IF input.curve_type \notin CurveTypes THEN Err("InvalidAccountData")
    ELSE Ok([curve_type |-> input.curve_type, calculator |-> input.calculator])

\* Pack::unpack for SwapV1: length check, unpack_from_slice, is_initialized
SwapV1_unpack(input) ==
    IF input.len # SwapV1_LEN THEN Err("InvalidAccountData")
    ELSE IF input.is_initialized \notin {0, 1} THEN Err("InvalidAccountData")
    ELSE IF SwapCurve_unpack(input).status = "Err" THEN Err("InvalidAccountData")
    ELSE IF input.is_initialized = 0 THEN Err("UninitializedAccount")
    ELSE Ok([ is_initialized |-> TRUE,
              bump_seed |-> input.bump_seed,
              token_program_id |-> Pubkey_from(input.token_program_id),
              token_a |-> Pubkey_from(input.token_a),
              token_b |-> Pubkey_from(input.token_b),
              pool_mint |-> Pubkey_from(input.pool_mint),
              token_a_mint |-> Pubkey_from(input.token_a_mint),
              token_b_mint |-> Pubkey_from(input.token_b_mint),
              pool_fee_account |-> Pubkey_from(input.pool_fee_account),
              fees |-> input.fees,
              swap_curve |-> SwapCurve_unpack(input).value ])

(***************************************************************************)
(* SolayerEndoAVSAmm                                                       *)
(***************************************************************************)
\* a handle the caller holds no adapter in
NoAmm == [live |-> FALSE]

\* the reserve mints in the order (B, A)
reserve_mints_of_reversed(state) ==
    << Pubkey_from(to_bytes(state.token_b_mint)),
       Pubkey_from(to_bytes(state.token_a_mint)) >>

\* the reserve_mints array built in from_keyed_account
reserve_mints_of(state) ==
    << Pubkey_from(to_bytes(state.token_a_mint)),
       Pubkey_from(to_bytes(state.token_b_mint)) >>

\* Amm::from_keyed_account
from_keyed_account(keyed_account) ==
    LET rest == slice_from_1(keyed_account.account.data)
        unpacked == SwapV1_unpack(rest.value)
    IN  IF rest.status = "Panic" THEN rest
        ELSE IF unpacked.status = "Err" THEN unpacked
        ELSE Ok([ live |-> TRUE,
                  key |-> keyed_account.key,
                  label |-> "Solayer",
                  state |-> unpacked.value,
                  reserve_mints |-> reserve_mints_of(unpacked.value),
                  program_id |-> keyed_account.account.owner,
                  reserves |-> <<0, 0>> ])

\* a clone that takes a default fee schedule instead of the original's
clone_default_fees(self) ==
    [self EXCEPT !.state.fees = Fees_default]

\* impl Clone for SolayerEndoAVSAmm
clone(self) ==
    [ live |-> TRUE,
      key |-> self.key,
      label |-> self.label,
      state |->
        [ is_initialized |-> self.state.is_initialized,
          bump_seed |-> self.state.bump_seed,
          token_program_id |-> self.state.token_program_id,
          token_a |-> self.state.token_a,
          token_b |-> self.state.token_b,
          pool_mint |-> self.state.pool_mint,
          token_a_mint |-> self.state.token_a_mint,
          token_b_mint |-> self.state.token_b_mint,
          pool_fee_account |-> self.state.pool_fee_account,
          fees |-> self.state.fees,
          swap_curve |->
            [ curve_type |-> self.state.swap_curve.curve_type,
              calculator |-> self.state.swap_curve.calculator ] ],
      reserve_mints |-> self.reserve_mints,
      program_id |-> self.program_id,
      reserves |-> self.reserves ]

\* Amm::clone_amm
clone_amm(self) == clone(self)

\* Amm::get_reserve_mints
get_reserve_mints(self) == self.reserve_mints

\* Amm::update: the adapter after the call (no action is needed here)
update(self, account_map) == self

\* a quote that charges a fee of one unit on a non-zero amount
quote_with_fee(self, quote_params) ==
    LET fee == IF quote_params.amount > 0 THEN 1 ELSE 0
    IN  Ok([ in_amount |-> quote_params.amount,
             out_amount |-> quote_params.amount - fee,
             fee_amount |-> fee,
             fee_mint |-> quote_params.input_mint ])

\* Amm::quote
quote(self, quote_params) ==
    Ok([ in_amount |-> quote_params.amount,
         out_amount |-> quote_params.amount,
         fee_amount |-> 0,
         fee_mint |-> quote_params.input_mint ])

\* AccountMeta::new and AccountMeta::new_readonly
AccountMeta_new(pubkey, is_signer) ==
    [pubkey |-> pubkey, is_signer |-> is_signer, is_writable |-> TRUE]

AccountMeta_new_readonly(pubkey, is_signer) ==
    [pubkey |-> pubkey, is_signer |-> is_signer, is_writable |-> FALSE]

\* the delegate branch with the two token accounts in each other's place
delegate_metas_accounts_swapped(registry, swap_params) ==
    LET vault == get(registry, swap_params.destination_mint)
    IN  IF ~vault.some THEN Panic("unwrap on None")
        ELSE Ok([ swap |-> "TokenSwap",
                  account_metas |->
                    << AccountMeta_new(swap_params.token_transfer_authority, TRUE),
                       AccountMeta_new(vault.value, FALSE),
                       AccountMeta_new_readonly(swap_params.destination_mint, FALSE),
                       AccountMeta_new_readonly(swap_params.destination_token_account, FALSE),
                       AccountMeta_new_readonly(swap_params.source_mint, FALSE),
                       AccountMeta_new_readonly(swap_params.source_token_account, FALSE),
                       AccountMeta_new_readonly(spl_token_id, FALSE),
                       AccountMeta_new_readonly(spl_associated_token_account_id, FALSE),
                       AccountMeta_new_readonly(solana_system_program_id, FALSE) >> ])

\* the delegate branch: sSOL to endoAVS
delegate_metas(registry, swap_params) ==
    LET vault == get(registry, swap_params.destination_mint)
    IN  IF ~vault.some THEN Panic("unwrap on None")
        ELSE Ok([ swap |-> "TokenSwap",
                  account_metas |->
                    << AccountMeta_new(swap_params.token_transfer_authority, TRUE),
                       AccountMeta_new(vault.value, FALSE),
                       AccountMeta_new_readonly(swap_params.destination_mint, FALSE),
                       AccountMeta_new_readonly(swap_params.source_token_account, FALSE),
                       AccountMeta_new_readonly(swap_params.source_mint, FALSE),
                       AccountMeta_new_readonly(swap_params.destination_token_account, FALSE),
                       AccountMeta_new_readonly(spl_token_id, FALSE),
                       AccountMeta_new_readonly(spl_associated_token_account_id, FALSE),
                       AccountMeta_new_readonly(solana_system_program_id, FALSE) >> ])

\* the rest of the undelegate list, after the staker and the vault
undelegate_tail(swap_params) ==
    << AccountMeta_new_readonly(swap_params.source_mint, FALSE),
       AccountMeta_new_readonly(swap_params.destination_token_account, FALSE),
       AccountMeta_new_readonly(swap_params.destination_mint, FALSE),
       AccountMeta_new_readonly(swap_params.source_token_account, FALSE),
       AccountMeta_new_readonly(spl_token_id, FALSE),
       AccountMeta_new_readonly(spl_associated_token_account_id, FALSE),
       AccountMeta_new_readonly(solana_system_program_id, FALSE) >>

\* the undelegate branch with the vault looked up by the destination mint
undelegate_metas_destination_vault(registry, swap_params) ==
    LET vault == get(registry, swap_params.destination_mint)
    IN  IF ~vault.some THEN Panic("unwrap on None")
        ELSE Ok([ swap |-> "TokenSwap",
                  account_metas |->
                    << AccountMeta_new(swap_params.token_transfer_authority, TRUE),
                       AccountMeta_new(vault.value, FALSE) >>
                    \o undelegate_tail(swap_params) ])

\* the undelegate branch with the token accounts in the delegate order
undelegate_metas_accounts_unswapped(registry, swap_params) ==
    LET vault == get(registry, swap_params.source_mint)
    IN  IF ~vault.some THEN Panic("unwrap on None")
        ELSE Ok([ swap |-> "TokenSwap",
                  account_metas |->
                    << AccountMeta_new(swap_params.token_transfer_authority, TRUE),
                       AccountMeta_new(vault.value, FALSE),
                       AccountMeta_new_readonly(swap_params.source_mint, FALSE),
                       AccountMeta_new_readonly(swap_params.source_token_account, FALSE),
                       AccountMeta_new_readonly(swap_params.destination_mint, FALSE),
                       AccountMeta_new_readonly(swap_params.destination_token_account, FALSE),
                       AccountMeta_new_readonly(spl_token_id, FALSE),
                       AccountMeta_new_readonly(spl_associated_token_account_id, FALSE),
                       AccountMeta_new_readonly(solana_system_program_id, FALSE) >> ])

\* the undelegate branch with unwrap_or_default in place of unwrap
undelegate_metas_unwrap_or_default(registry, swap_params) ==
    LET vault == get(registry, swap_params.source_mint)
        address == IF vault.some THEN vault.value ELSE DefaultPubkey
    IN  Ok([ swap |-> "TokenSwap",
             account_metas |->
               << AccountMeta_new(swap_params.token_transfer_authority, TRUE),
                  AccountMeta_new(address, FALSE) >>
               \o undelegate_tail(swap_params) ])

\* the undelegate branch: endoAVS to sSOL
undelegate_metas(registry, swap_params) ==
    LET vault == get(registry, swap_params.source_mint)
    IN  IF ~vault.some THEN Panic("unwrap on None")
        ELSE Ok([ swap |-> "TokenSwap",
                  account_metas |->
                    << AccountMeta_new(swap_params.token_transfer_authority, TRUE),
                       AccountMeta_new(vault.value, FALSE),
                       AccountMeta_new_readonly(swap_params.source_mint, FALSE),
                       AccountMeta_new_readonly(swap_params.destination_token_account, FALSE),
                       AccountMeta_new_readonly(swap_params.destination_mint, FALSE),
                       AccountMeta_new_readonly(swap_params.source_token_account, FALSE),
                       AccountMeta_new_readonly(spl_token_id, FALSE),
                       AccountMeta_new_readonly(spl_associated_token_account_id, FALSE),
                       AccountMeta_new_readonly(solana_system_program_id, FALSE) >> ])

\* Amm::get_swap_and_account_metas
get_swap_and_account_metas(self, registry, swap_params) ==
    IF swap_params.source_mint = SOLAYER_SOL
    THEN delegate_metas(registry, swap_params)
    ELSE undelegate_metas(registry, swap_params)

(***************************************************************************)
(* State                                                                   *)
(*   amms    the adapters the caller holds, by handle                      *)
(*   AVS_MINT_TO_AVS_ADDRESS   the lazy static                              *)
(*   last    the last call made: operation, handle, argument, result       *)
(*   cloned_from   for a handle filled by clone, the handle it was cloned   *)
(*                 from; "none" for the others                             *)
(***************************************************************************)
VARIABLES amms, AVS_MINT_TO_AVS_ADDRESS, last, cloned_from

vars == <<amms, AVS_MINT_TO_AVS_ADDRESS, last, cloned_from>>

\* the handles a caller holds adapters in
Handles == {"amm1", "amm2"}

\* the account maps a caller passes to update
AccountMaps ==
    { HashMap_new,
      insert(HashMap_new, POOL_TOKEN_A, POOL_OWNER),
      insert(insert(HashMap_new, POOL_TOKEN_A, POOL_OWNER), POOL_TOKEN_B, POOL_OWNER) }

QuoteParamsSet ==
    [ amount : 0..MaxAmount,
      input_mint : {SOLAYER_SOL, BYBIT_AVS_MINT, UNKNOWN_MINT},
      swap_mode : {"ExactIn", "ExactOut"} ]

\* the (source mint, destination mint) pairs of the requests: the base token
\* to every mint, and every other mint to the base token, to another
\* derivative mint and to an unknown mint
MintPairs ==
    { <<SOLAYER_SOL, dm>> : dm \in Mints }
    \cup
    ((Mints \ {SOLAYER_SOL}) \X {SOLAYER_SOL, OKX_AVS_MINT, UNKNOWN_MINT})

SwapParamsSet ==
    { [ source_mint |-> mp[1],
        destination_mint |-> mp[2],
        source_token_account |-> acc[1],
        destination_token_account |-> acc[2],
        token_transfer_authority |-> USER_AUTHORITY ] :
        mp \in MintPairs,
        acc \in {<<USER_ACCOUNT_1, USER_ACCOUNT_2>>, <<USER_ACCOUNT_2, USER_ACCOUNT_1>>} }

Call(op, h, arg, result) == [op |-> op, amm |-> h, arg |-> arg, result |-> result]

Init ==
    /\ amms = [h \in Handles |-> NoAmm]
    /\ AVS_MINT_TO_AVS_ADDRESS = Uninitialized
    /\ last = Call("none", "amm1", None, Ok(None))
    /\ cloned_from = [h \in Handles |-> "none"]

FromKeyedAccount(h, keyed_account) ==
    LET r == from_keyed_account(keyed_account)
    IN  /\ ~amms[h].live
        /\ amms' = IF r.status = "Ok" THEN [amms EXCEPT ![h] = r.value] ELSE amms
        /\ last' = Call("from_keyed_account", h, keyed_account, r)
        /\ UNCHANGED <<AVS_MINT_TO_AVS_ADDRESS, cloned_from>>

Clone(h, g) ==
    /\ amms[h].live
    /\ ~amms[g].live
    /\ amms' = [amms EXCEPT ![g] = clone(amms[h])]
    /\ last' = Call("clone", h, g, Ok(clone(amms[h])))
    /\ cloned_from' = [cloned_from EXCEPT ![g] = h]
    /\ UNCHANGED AVS_MINT_TO_AVS_ADDRESS

CloneAmm(h, g) ==
    /\ amms[h].live
    /\ ~amms[g].live
    /\ amms' = [amms EXCEPT ![g] = clone_amm(amms[h])]
    /\ last' = Call("clone_amm", h, g, Ok(clone_amm(amms[h])))
    /\ cloned_from' = [cloned_from EXCEPT ![g] = h]
    /\ UNCHANGED AVS_MINT_TO_AVS_ADDRESS

Update(h, account_map) ==
    /\ amms[h].live
    /\ amms' = [amms EXCEPT ![h] = update(amms[h], account_map)]
    /\ last' = Call("update", h, account_map, Ok(None))
    /\ UNCHANGED <<AVS_MINT_TO_AVS_ADDRESS, cloned_from>>

Quote(h, quote_params) ==
    /\ amms[h].live
    /\ last' = Call("quote", h, quote_params, quote(amms[h], quote_params))
    /\ UNCHANGED <<amms, AVS_MINT_TO_AVS_ADDRESS, cloned_from>>

GetReserveMints(h) ==
    /\ amms[h].live
    /\ last' = Call("get_reserve_mints", h, None, Ok(get_reserve_mints(amms[h])))
    /\ UNCHANGED <<amms, AVS_MINT_TO_AVS_ADDRESS, cloned_from>>

GetSwapAndAccountMetas(h, swap_params) ==
    /\ amms[h].live
    /\ AVS_MINT_TO_AVS_ADDRESS' = deref(AVS_MINT_TO_AVS_ADDRESS)
    /\ last' = Call("get_swap_and_account_metas", h, swap_params,
                    get_swap_and_account_metas(
                        amms[h], deref(AVS_MINT_TO_AVS_ADDRESS).map, swap_params))
    /\ UNCHANGED <<amms, cloned_from>>

Next ==
    \/ \E h \in Handles, keyed_account \in KeyedAccounts : FromKeyedAccount(h, keyed_account)
    \/ \E h \in Handles, g \in Handles : Clone(h, g)
    \/ \E h \in Handles, g \in Handles : CloneAmm(h, g)
    \/ \E h \in Handles, account_map \in AccountMaps : Update(h, account_map)
    \/ \E h \in Handles, quote_params \in QuoteParamsSet : Quote(h, quote_params)
    \/ \E h \in Handles : GetReserveMints(h)
    \/ \E h \in Handles, swap_params \in SwapParamsSet : GetSwapAndAccountMetas(h, swap_params)

Spec == Init /\ [][Next]_vars

(***************************************************************************)
(* Properties                                                              *)
(***************************************************************************)
\* the vault each derivative mint is documented to pair with
DocumentedVault(mint) ==
    CASE mint = BYBIT_AVS_MINT -> BYBIT_AVS_ADDRESS
      [] mint = OKX_AVS_MINT -> OKX_AVS_ADDRESS
      [] mint = KAMINO_FINANCE_AVS_MINT -> KAMINO_FINANCE_AVS_ADDRESS
      [] mint = BITGET_AVS_MINT -> BITGET_AVS_ADDRESS
      [] mint = SONIC_AVS_MINT -> SONIC_AVS_ADDRESS
      [] mint = HASH_KEY_CLOUD_AVS_MINT -> HASH_KEY_CLOUD_AVS_ADDRESS
      [] mint = BONK_AVS_MINT -> BONK_AVS_ADDRESS
      [] mint = ALT_LAYER_AVS_MINT -> ALT_LAYER_AVS_ADDRESS

Role(pubkey, is_signer, is_writable) ==
    [pubkey |-> pubkey, is_signer |-> is_signer, is_writable |-> is_writable]

IsSwapCall == last.op = "get_swap_and_account_metas"

IsDelegateRequest(p) ==
    p.source_mint = SOLAYER_SOL /\ p.destination_mint \in AvsMints

IsUndelegateRequest(p) ==
    p.source_mint # SOLAYER_SOL /\ p.source_mint \in AvsMints

\* C1: every quote, on any adapter, succeeds and returns in_amount = a,
\* out_amount = a, fee_amount = 0 and fee_mint = m for the request's amount a
\* and input mint m.
C1_QuoteIdentity ==
    last.op = "quote" =>
        /\ last.result.status = "Ok"
        /\ last.result.value.in_amount = last.arg.amount
        /\ last.result.value.out_amount = last.arg.amount
        /\ last.result.value.fee_amount = 0
        /\ last.result.value.fee_mint = last.arg.input_mint

C1_Witness ==
    /\ last.op = "quote"
    /\ last.arg.amount = MaxAmount
    /\ last.arg.input_mint = BYBIT_AVS_MINT
    /\ last.result.status = "Ok"
    /\ last.result.value.out_amount = MaxAmount

\* C2: a request from the base token to a registered derivative mint gets
\* exactly the nine delegate roles, in order: authority (signer, mutable),
\* vault of the destination mint (mutable), destination mint, source token
\* account, source mint, destination token account, token program,
\* associated-token-account program, system program (all read-only).
C2_DelegateLayout ==
    (IsSwapCall /\ IsDelegateRequest(last.arg)) =>
        /\ last.result.status = "Ok"
        /\ last.result.value.account_metas =
             << Role(last.arg.token_transfer_authority, TRUE, TRUE),
                Role(DocumentedVault(last.arg.destination_mint), FALSE, TRUE),
                Role(last.arg.destination_mint, FALSE, FALSE),
                Role(last.arg.source_token_account, FALSE, FALSE),
                Role(last.arg.source_mint, FALSE, FALSE),
                Role(last.arg.destination_token_account, FALSE, FALSE),
                Role(spl_token_id, FALSE, FALSE),
                Role(spl_associated_token_account_id, FALSE, FALSE),
                Role(solana_system_program_id, FALSE, FALSE) >>

C2_Witness ==
    /\ IsSwapCall
    /\ last.arg.source_mint = SOLAYER_SOL
    /\ last.arg.destination_mint = SONIC_AVS_MINT
    /\ last.result.status = "Ok"
    /\ Len(last.result.value.account_metas) = 9
    /\ last.result.value.account_metas[2].pubkey = SONIC_AVS_ADDRESS

\* C3: a request whose source mint is a registered derivative mint (so not
\* the base token) gets exactly the nine undelegate roles, in order:
\* authority (signer, mutable), vault of the source mint (mutable), source
\* mint, destination token account, destination mint, source token account,
\* token program, associated-token-account program, system program (all
\* read-only), whatever the destination mint is.
C3_UndelegateLayout ==
    (IsSwapCall /\ IsUndelegateRequest(last.arg)) =>
        /\ last.result.status = "Ok"
        /\ last.result.value.account_metas =
             << Role(last.arg.token_transfer_authority, TRUE, TRUE),
                Role(DocumentedVault(last.arg.source_mint), FALSE, TRUE),
                Role(last.arg.source_mint, FALSE, FALSE),
                Role(last.arg.destination_token_account, FALSE, FALSE),
                Role(last.arg.destination_mint, FALSE, FALSE),
                Role(last.arg.source_token_account, FALSE, FALSE),
                Role(spl_token_id, FALSE, FALSE),
                Role(spl_associated_token_account_id, FALSE, FALSE),
                Role(solana_system_program_id, FALSE, FALSE) >>

C3_Witness ==
    /\ IsSwapCall
    /\ last.arg.source_mint = HASH_KEY_CLOUD_AVS_MINT
    /\ last.arg.destination_mint = SOLAYER_SOL
    /\ last.result.status = "Ok"
    /\ Len(last.result.value.account_metas) = 9
    /\ last.result.value.account_metas[2].pubkey = HASH_KEY_CLOUD_AVS_ADDRESS

\* the mint get_swap_and_account_metas looks up in the registry
ResolvedMint(p) ==
    IF p.source_mint = SOLAYER_SOL THEN p.destination_mint ELSE p.source_mint

\* C4: when the mint to resolve is not one of the eight registered mints,
\* get_swap_and_account_metas returns an error value (and no account list,
\* and no panic).
C4_RegistryMissIsError ==
    (IsSwapCall /\ ResolvedMint(last.arg) \notin AvsMints) =>
        last.result.status = "Err"

\* C5: the registry any call sees has exactly eight entries, each of the
\* eight derivative mints resolves to its documented vault, and no other
\* key (the base token included) has an entry.
C5_RegistryComplete ==
    LET m == deref(AVS_MINT_TO_AVS_ADDRESS).map
    IN  /\ Cardinality(DOMAIN m) = 8
        /\ \A mint \in AvsMints : get(m, mint) = Some(DocumentedVault(mint))
        /\ \A k \in Pubkeys \ AvsMints : get(m, k) = None
        /\ AVS_MINT_TO_AVS_ADDRESS.initialized => AVS_MINT_TO_AVS_ADDRESS.map = m

C5_Witness ==
    /\ AVS_MINT_TO_AVS_ADDRESS.initialized
    /\ IsSwapCall
    /\ last.arg.source_mint = SOLAYER_SOL
    /\ last.arg.destination_mint = BONK_AVS_MINT
    /\ last.result.status = "Ok"
    /\ \E h \in Handles : cloned_from[h] # "none"

\* the length of the data after the version byte is not the packed size, or
\* the curve-type tag is not a known one
BadRemainder(data) ==
    \/ data.len - 1 # SwapV1_LEN
    \/ data.curve_type \notin CurveTypes

\* C6: construction from data whose remainder after the first byte has the
\* wrong size (the empty and the one-byte data included) or an unknown
\* curve-type tag returns an error, creates no adapter and does not panic.
C6_DecodeFailureIsError ==
    (last.op = "from_keyed_account" /\ BadRemainder(last.arg.account.data)) =>
        /\ last.result.status = "Err"
        /\ ~amms[last.amm].live

\* the request with source and destination mints and token accounts swapped
Mirror(p) ==
    [ source_mint |-> p.destination_mint,
      destination_mint |-> p.source_mint,
      source_token_account |-> p.destination_token_account,
      destination_token_account |-> p.source_token_account,
      token_transfer_authority |-> p.token_transfer_authority ]

\* C7: the list of a delegate request X (base token to derivative mint D)
\* and the list of its mirror Y (D to the base token, token accounts
\* swapped) both have nine roles, both hold the vault of D at position 1,
\* and agree in address, mutability and signer flag at every position.
C7_DirectionalityMirror ==
    LET p == last.arg
        D == IF p.source_mint = SOLAYER_SOL THEN p.destination_mint ELSE p.source_mint
        other == get_swap_and_account_metas(
                     amms[last.amm], deref(AVS_MINT_TO_AVS_ADDRESS).map, Mirror(p))
    IN  (/\ IsSwapCall
         /\ \/ IsDelegateRequest(p)
            \/ IsUndelegateRequest(p) /\ p.destination_mint = SOLAYER_SOL) =>
            /\ last.result.status = "Ok"
            /\ other.status = "Ok"
            /\ Len(last.result.value.account_metas) = 9
            /\ Len(other.value.account_metas) = 9
            /\ last.result.value.account_metas[2].pubkey = DocumentedVault(D)
            /\ other.value.account_metas[2].pubkey = DocumentedVault(D)
            /\ \A i \in 1..9 :
                 last.result.value.account_metas[i] = other.value.account_metas[i]

C7_Witness ==
    /\ IsSwapCall
    /\ last.arg.source_mint = SOLAYER_SOL
    /\ last.arg.destination_mint = KAMINO_FINANCE_AVS_MINT
    /\ last.arg.source_token_account = USER_ACCOUNT_2
    /\ last.result.status = "Ok"
    /\ last.result.value.account_metas[4].pubkey = USER_ACCOUNT_2
    /\ last.result.value.account_metas[6].pubkey = USER_ACCOUNT_1

\* C8: a clone step leaves the copy with the original's key, label, program
\* id, pool state, reserve mints and reserves, and no step (update, quote,
\* get_swap_and_account_metas, clone on any adapter) changes any field of an
\* adapter that exists.
C8_CloneIndependence ==
    [][ /\ \A h \in Handles : amms[h].live => amms'[h] = amms[h]
        /\ \A g \in Handles :
             (cloned_from[g] = "none" /\ cloned_from'[g] # "none") =>
                 /\ amms'[g].live
                 /\ amms'[g].key = amms[cloned_from'[g]].key
                 /\ amms'[g].label = amms[cloned_from'[g]].label
                 /\ amms'[g].program_id = amms[cloned_from'[g]].program_id
                 /\ amms'[g].state = amms[cloned_from'[g]].state
                 /\ amms'[g].reserve_mints = amms[cloned_from'[g]].reserve_mints
                 /\ amms'[g].reserves = amms[cloned_from'[g]].reserves
      ]_vars

C8_Witness ==
    /\ cloned_from["amm2"] = "amm1"
    /\ last.op = "update"
    /\ last.amm = "amm2"
    /\ amms["amm1"].live
    /\ amms["amm1"].state.fees.trade_fee_numerator = 1
    /\ amms["amm2"] = amms["amm1"]

\* C9: construction stores the reserve mints as (A, B) of the decoded data,
\* no step changes the reserve mints of an adapter that exists, and
\* get_reserve_mints returns exactly that two-element sequence.
C9_ReserveMintOrder ==
    [][ /\ \A h \in Handles :
             amms[h].live => amms'[h].reserve_mints = amms[h].reserve_mints
        /\ (last'.op = "from_keyed_account" /\ last'.result.status = "Ok") =>
             amms'[last'.amm].reserve_mints =
                << AllPubkeys[last'.arg.account.data.token_a_mint],
                   AllPubkeys[last'.arg.account.data.token_b_mint] >>
        /\ last'.op = "get_reserve_mints" =>
             /\ last'.result.status = "Ok"
             /\ Len(last'.result.value) = 2
             /\ last'.result.value = amms[last'.amm].reserve_mints
             /\ last'.result.value =
                  << amms[last'.amm].state.token_a_mint,
                     amms[last'.amm].state.token_b_mint >>
      ]_vars

C9_Witness ==
    /\ last.op = "get_reserve_mints"
    /\ last.result.value = <<BYBIT_AVS_MINT, SOLAYER_SOL>>
    /\ cloned_from[last.amm] # "none"

\* C10 as stated: an account list is returned only when exactly one of the
\* two mints is the base token and the other is a registered derivative
\* mint.
C10_OnlyBaseDerivativePairs ==
    (IsSwapCall /\ last.result.status = "Ok") =>
        \/ last.arg.source_mint = SOLAYER_SOL /\ last.arg.destination_mint \in AvsMints
        \/ last.arg.destination_mint = SOLAYER_SOL /\ last.arg.source_mint \in AvsMints

\* C10 as amended: an account list is returned only when the source mint is
\* the base token and the destination mint is a registered derivative mint,
\* or the source mint is a registered derivative mint; in the second case
\* the destination mint is not looked at.
C10_OnlyResolvedMints ==
    (IsSwapCall /\ last.result.status = "Ok") =>
        \/ IsDelegateRequest(last.arg)
        \/ IsUndelegateRequest(last.arg)

C10_Witness ==
    /\ IsSwapCall
    /\ last.result.status = "Ok"
    /\ last.arg.source_mint = BYBIT_AVS_MINT
    /\ last.arg.destination_mint = UNKNOWN_MINT
    /\ Len(last.result.value.account_metas) = 9

====
